---- MODULE Spec2Model ----
(***************************************************************************)
(* Model of apps/train_net.py: the training loop train() and the held-out  *)
(* evaluation helper test().                                               *)
(*                                                                         *)
(* Floating-point values are modelled as exact rationals <<n, d>> with     *)
(* d > 0 in lowest terms; <<0, 0>> is NaN.  A tensor is a sequence of such *)
(* values, one element per sample of the batch.                            *)
(***************************************************************************)
EXTENDS Integers, Sequences, FiniteSets, TLC

\* ------------------------------------------------------------------ bounds
MaxEpoch == 2   \* cfg.num_epoch ranges over 0..MaxEpoch
MaxTrain == 3   \* len(train_dataset) is 0 or MaxTrain
MaxTest  == 2   \* len(test_dataset) is at most MaxTest
MaxBatch == 2   \* cfg.batch_size ranges over 1..MaxBatch
MaxFreq  == 2   \* cfg.freq_* range over 1..MaxFreq
MaxRuns  == 1   \* number of times the process is launched again

\* -------------------------------------------------------------- arithmetic
\* The arithmetic is defined by functions, whose arguments are values.
GCD[a \in Nat, b \in Nat] == IF b = 0 THEN a ELSE GCD[b, a % b]

Abs(x) == IF x < 0 THEN -x ELSE x

Max(a, b) == IF a >= b THEN a ELSE b

Pow10[k \in Nat] == IF k = 0 THEN 1 ELSE 10 * Pow10[k - 1]

NaN == <<0, 0>>

\* the floating-point values
Float == Int \X Nat

IsNaN(x) == x[2] = 0

\* the rational n/d in lowest terms (d = 0 gives NaN)
Rat[n \in Int, d \in Nat] ==
    IF d = 0 THEN NaN
    ELSE <<n \div GCD[Abs(n), d], d \div GCD[Abs(n), d]>>

Int2F(k) == <<k, 1>>

FAdd[a \in Float, b \in Float] ==
    IF IsNaN(a) \/ IsNaN(b) THEN NaN
    ELSE Rat[a[1] * b[2] + b[1] * a[2], a[2] * b[2]]

FSub[a \in Float, b \in Float] ==
    IF IsNaN(a) \/ IsNaN(b) THEN NaN
    ELSE Rat[a[1] * b[2] - b[1] * a[2], a[2] * b[2]]

FMul[a \in Float, b \in Float] ==
    IF IsNaN(a) \/ IsNaN(b) THEN NaN
    ELSE Rat[a[1] * b[1], a[2] * b[2]]

\* a / k for an integer k > 0
FDivInt[a \in Float, k \in Nat] == IF IsNaN(a) THEN NaN ELSE Rat[a[1], a[2] * k]

\* IEEE comparisons: every comparison with NaN is false
FLt(a, b) == ~IsNaN(a) /\ ~IsNaN(b) /\ a[1] * b[2] < b[1] * a[2]

FGe(a, b) == ~IsNaN(a) /\ ~IsNaN(b) /\ a[1] * b[2] >= b[1] * a[2]

FEq(a, b) == ~IsNaN(a) /\ ~IsNaN(b) /\ a[1] * b[2] = b[1] * a[2]

\* the sum of the first k elements of the tensor s
SumTo[s \in Seq(Float), k \in Nat] ==
    IF k = 0 THEN Int2F(0) ELSE FAdd[s[k], SumTo[s, k - 1]]

\* mean of a non-empty tensor
Mean[t \in Seq(Float)] == FDivInt[SumTo[t, Len(t)], Len(t)]

\* '{:.kf}'.format(x) for x >= 0: x rounded half-to-even to k decimals
Fmt[x \in Float, k \in Nat] ==
    IF IsNaN(x) THEN NaN
    ELSE LET num == x[1] * Pow10[k]
             q   == num \div x[2]
             r   == num % x[2]
             up  == 2 * r > x[2] \/ (2 * r = x[2] /\ q % 2 = 1)
         IN  Rat[IF up THEN q + 1 ELSE q, Pow10[k]]

\* ------------------------------------------------------------------ tensors
Half == Rat[1, 2]
Zero == Int2F(0)
One  == Int2F(1)

\* values a forward pass may emit per element: below, at and above 0.5, NaN
Values == {Rat[2, 5], Half, Rat[3, 5], NaN}

Targets == {Zero, One}

\* all tensors of n elements over the set S
Tensors(n, S) == [1..n -> S]

\* F.mse_loss(output, target), reduction='mean'
MseLoss(out, tgt) ==
    Mean[[i \in DOMAIN out |-> FMul[FSub[out[i], tgt[i]], FSub[out[i], tgt[i]]]]]

\* pred < c, elementwise
LtMask(t, c) == [i \in DOMAIN t |-> FLt(t[i], c)]

\* a strict comparison in place of >=
GeMaskStrict(t, c) ==
    [i \in DOMAIN t |-> ~IsNaN(t[i]) /\ ~IsNaN(c) /\ t[i][1] * c[2] > c[1] * t[i][2]]

\* pred >= c, elementwise
GeMask(t, c) == [i \in DOMAIN t |-> FGe(t[i], c)]

\* Tensor.masked_fill(mask, value): out of place
MaskedFill(t, mask, val) == [i \in DOMAIN t |-> IF mask[i] THEN val ELSE t[i]]

\* the two successive fills of train() and test()
Binarize(t) ==
    LET p1 == MaskedFill(t, LtMask(t, Half), Zero)
    IN  MaskedFill(p1, GeMask(p1, Half), One)

\* pred.eq(target).float().mean()
EqMean(p, tgt) ==
    Mean[[i \in DOMAIN p |-> IF FEq(p[i], tgt[i]) THEN One ELSE Zero]]

\* len(DataLoader(dataset, batch_size, drop_last))
LenLoader(size, bs, drop_last) ==
    IF drop_last THEN size \div bs ELSE (size + bs - 1) \div bs

\* number of samples in batch k (0-based) of a loader without drop_last
BatchLen(size, bs, k) == IF (k + 1) * bs <= size THEN bs ELSE size - k * bs

\* -------------------------------------------------------------------- state
VARIABLES
    cfg,          \* the frozen configuration
    train_size,   \* len(train_dataset)
    test_size,    \* len(test_dataset)
    net_range,    \* values the network may emit per element
    tgt_range,    \* values the targets take per element
    ckpt_file,    \* the file at cfg.ckpt_path
    runs,         \* how often the process was launched again
    pc,           \* position of the main thread
    ret,          \* where test() returns to
    trainer,      \* trainer.epoch, trainer.iteration
    net_mode,     \* "train" or "eval"
    opt_steps,    \* trainer.optimizer.step() calls: versions of the parameters
    sched_steps,  \* trainer.scheduler.step() calls
    load_calls,   \* trainer.load_ckpt calls
    not_found,    \* the 'ckpt ... not found.' line was logged
    start_epoch, start_iter, epoch, iteration, niter, global_step,
    drawn,        \* next(loader) calls on the current loader
    raw,          \* train(): the network's output before the fills
    target, output, loss, correct,     \* locals of train()
    tidx, test_raw, test_target, pred, test_loss, test_correct,  \* frame of test()
    per_batch,    \* <<loss, accuracy>> of every batch of the last test() call
    test_calls,   \* calls of test() in this run
    logged,       \* the numbers of the last 'Test set:' line
    fired,        \* side effects of the current iteration
    steps,        \* <<epoch, iteration, global_step>> of every training step
    fwd           \* <<caller, mode>> of every forward pass

ctl == <<pc, ret, trainer, net_mode, opt_steps, sched_steps, load_calls, not_found,
         start_epoch, start_iter, epoch, iteration, niter, global_step, drawn>>

env == <<cfg, train_size, test_size, net_range, tgt_range>>

loc == <<raw, target, output, loss, correct>>

frame == <<tidx, test_raw, test_target, pred, test_loss, test_correct>>

hist == <<per_batch, test_calls, logged, fired, steps, fwd>>

vars == <<env, ckpt_file, runs, ctl, loc, frame, hist>>

\* a local that is not bound
Unbound == <<>>

NoFile == [exists |-> FALSE, epoch |-> 0, iteration |-> 0, run |-> -1]

\* Trainer(net, cfg): the cursor of a fresh trainer
TrainerInit == [epoch |-> 0, iteration |-> 0]

\* trainer.load_ckpt(path): restores the cursor stored in the file
LoadCkpt(file) == [epoch |-> file.epoch, iteration |-> file.iteration]

\* trainer.update_ckpt(name, epoch, iteration): persists the cursor
UpdateCkpt(e, i, r) == [exists |-> TRUE, epoch |-> e, iteration |-> i, run |-> r]

Configs ==
    [num_epoch : 0..MaxEpoch, batch_size : 1..MaxBatch,
     freq_plot : 1..MaxFreq, freq_show : 1..MaxFreq,
     freq_save : 1..MaxFreq, freq_eval : 1..MaxFreq, overfit : BOOLEAN]

\* files left at cfg.ckpt_path by a training under another configuration: a
\* cursor at the start or past the end of the epochs and of the iterations
\* (the files this configuration writes come from Save, through Restart)
OldFiles ==
    {[exists |-> TRUE, epoch |-> e, iteration |-> i, run |-> -1] :
        e \in {0, MaxEpoch}, i \in {0, MaxTrain}}

\* the process at its start: nothing of train() has run
Fresh ==
    /\ pc = "setup"
    /\ ret = "none"
    /\ trainer = TrainerInit
    /\ net_mode = "train"
    /\ opt_steps = 0 /\ sched_steps = 0 /\ load_calls = 0 /\ not_found = FALSE
    /\ start_epoch = 0 /\ start_iter = 0 /\ epoch = 0 /\ iteration = 0
    /\ niter = 0 /\ global_step = 0 /\ drawn = 0
    /\ raw = Unbound /\ target = Unbound /\ output = Unbound
    /\ loss = Unbound /\ correct = Unbound
    /\ tidx = 0 /\ test_raw = Unbound /\ test_target = Unbound /\ pred = Unbound
    /\ test_loss = Unbound /\ test_correct = Unbound
    /\ per_batch = <<>> /\ test_calls = 0 /\ logged = Unbound
    /\ fired = {} /\ steps = <<>> /\ fwd = {}

\* the training program: every configuration, one representative network
Init ==
    /\ cfg \in Configs
    /\ train_size \in {0, MaxTrain}
    /\ test_size = MaxTest
    /\ net_range = {Rat[3, 5]}
    /\ tgt_range = {One}
    /\ ckpt_file \in {NoFile} \cup OldFiles
    /\ runs = 0
    /\ Fresh

\* ------------------------------------------------------------------ train()
\* iteration % cfg.freq_plot == 0 and iteration > 0
PlotFires(i) == i % cfg.freq_plot = 0 /\ i > 0

\* iteration % cfg.freq_show == 0 and iteration > 0
ShowFires(i) == i % cfg.freq_show = 0 /\ i > 0

\* the save condition without the overfit flag
SaveFiresNoOverfit(i) == i % cfg.freq_save = 0 /\ i > 0

\* iteration % cfg.freq_save == 0 and iteration > 0 and not cfg.overfit
SaveFires(i) == i % cfg.freq_save = 0 /\ i > 0 /\ ~cfg.overfit

\* iteration % cfg.freq_eval == 0 and iteration > 0 and not cfg.overfit
EvalFires(i) == i % cfg.freq_eval = 0 /\ i > 0 /\ ~cfg.overfit

\* the epoch scaled by the batch size in place of the loader's length
GlobalStepBatch(e, n, i) == e * cfg.batch_size + i

\* global_step = epoch * niter + iteration
GlobalStep(e, n, i) == e * n + i

\* the resumed iteration is dropped
StartIterZero(t) == 0

\* start_iter = trainer.iteration
StartIter(t) == t.iteration

\* start_epoch = trainer.epoch
StartEpoch(t) == t.epoch

\* the iteration cursor is not reset
NextStartIterKept == start_iter

\* start_iter = 0 at the end of an epoch
NextStartIter == 0

\* Setup with the test of os.path.exists inverted
SetupInverted ==
    /\ pc = "setup"
    /\ LET found == ~ckpt_file.exists
           t == IF found THEN LoadCkpt(ckpt_file) ELSE TrainerInit
       IN  /\ trainer' = t
           /\ load_calls' = IF found THEN load_calls + 1 ELSE load_calls
           /\ not_found' = ~found
           /\ start_iter' = t.iteration
           /\ start_epoch' = t.epoch
           /\ epoch' = t.epoch
    /\ pc' = "epoch"
    /\ UNCHANGED <<env, ckpt_file, runs, ret, net_mode, opt_steps, sched_steps,
                   iteration, niter, global_step, drawn, loc, frame, hist>>

\* datasets, loader, net, trainer, checkpoint, start cursor
Setup ==
    /\ pc = "setup"
    /\ LET found == ckpt_file.exists
           t == IF found THEN LoadCkpt(ckpt_file) ELSE TrainerInit
       IN  /\ trainer' = t
           /\ load_calls' = IF found THEN load_calls + 1 ELSE load_calls
           /\ not_found' = ~found
           /\ start_iter' = StartIter(t)
           /\ start_epoch' = StartEpoch(t)
           /\ epoch' = StartEpoch(t)
    /\ pc' = "epoch"
    /\ UNCHANGED <<env, ckpt_file, runs, ret, net_mode, opt_steps, sched_steps,
                   iteration, niter, global_step, drawn, loc, frame, hist>>

\* head of `for epoch in range(start_epoch, cfg.num_epoch)` and the lines up
\* to the inner loop: train mode, a fresh loader, niter
EpochBegin ==
    /\ pc = "epoch"
    /\ epoch < cfg.num_epoch
    /\ net_mode' = "train"
    /\ niter' = LenLoader(train_size, cfg.batch_size, TRUE)
    /\ drawn' = 0
    /\ iteration' = start_iter
    /\ pc' = "step"
    /\ UNCHANGED <<env, ckpt_file, runs, ret, trainer, opt_steps, sched_steps,
                   load_calls, not_found, start_epoch, start_iter, epoch,
                   global_step, loc, frame, hist>>

\* the epoch range is exhausted: train() returns
Finish ==
    /\ pc = "epoch"
    /\ epoch >= cfg.num_epoch
    /\ pc' = "done"
    /\ UNCHANGED <<env, ckpt_file, runs, ret, trainer, net_mode, opt_steps,
                   sched_steps, load_calls, not_found, start_epoch, start_iter,
                   epoch, iteration, niter, global_step, drawn, loc, frame, hist>>

\* one iteration up to the optimizer step: batch, forward pass, loss, the two
\* fills, accuracy, zero_grad/backward/step
TrainStep ==
    /\ pc = "step"
    /\ iteration < niter
    /\ IF drawn >= niter
       THEN \* next(loader) raises StopIteration
            /\ pc' = "crashed"
            /\ UNCHANGED <<drawn, global_step, opt_steps, loc, fired, steps, fwd>>
       ELSE /\ drawn' = drawn + 1
            /\ global_step' = GlobalStep(epoch, niter, iteration)
            /\ \E out \in Tensors(cfg.batch_size, net_range),
                  tgt \in Tensors(cfg.batch_size, tgt_range) :
                   /\ raw' = out
                   /\ target' = tgt
                   /\ loss' = MseLoss(out, tgt)
                   /\ output' = Binarize(out)
                   /\ correct' = EqMean(Binarize(out), tgt)
            /\ fwd' = fwd \cup {<<"train", net_mode>>}
            /\ opt_steps' = opt_steps + 1
            /\ steps' = Append(steps, <<epoch, iteration, GlobalStep(epoch, niter, iteration)>>)
            /\ fired' = {}
            /\ pc' = "plot"
    /\ UNCHANGED <<env, ckpt_file, runs, ret, trainer, net_mode, sched_steps,
                   load_calls, not_found, start_epoch, start_iter, epoch,
                   iteration, niter, frame, per_batch, test_calls, logged>>

\* # print
Plot ==
    /\ pc = "plot"
    /\ fired' = IF PlotFires(iteration) THEN fired \cup {"plot"} ELSE fired
    /\ pc' = "show"
    /\ UNCHANGED <<env, ckpt_file, runs, ret, trainer, net_mode, opt_steps,
                   sched_steps, load_calls, not_found, start_epoch, start_iter,
                   epoch, iteration, niter, global_step, drawn, loc, frame,
                   per_batch, test_calls, logged, steps, fwd>>

\* # update image
Show ==
    /\ pc = "show"
    /\ fired' = IF ShowFires(iteration) THEN fired \cup {"show"} ELSE fired
    /\ pc' = "save"
    /\ UNCHANGED <<env, ckpt_file, runs, ret, trainer, net_mode, opt_steps,
                   sched_steps, load_calls, not_found, start_epoch, start_iter,
                   epoch, iteration, niter, global_step, drawn, loc, frame,
                   per_batch, test_calls, logged, steps, fwd>>

\* # save
Save ==
    /\ pc = "save"
    /\ IF SaveFires(iteration)
       THEN /\ ckpt_file' = UpdateCkpt(epoch, iteration, runs)
            /\ fired' = fired \cup {"save"}
       ELSE UNCHANGED <<ckpt_file, fired>>
    /\ pc' = "eval"
    /\ UNCHANGED <<env, runs, ret, trainer, net_mode, opt_steps,
                   sched_steps, load_calls, not_found, start_epoch, start_iter,
                   epoch, iteration, niter, global_step, drawn, loc, frame,
                   per_batch, test_calls, logged, steps, fwd>>

\* # evaluation: trainer.net.eval() and the call of test()
Eval ==
    /\ pc = "eval"
    /\ IF EvalFires(iteration)
       THEN /\ net_mode' = "eval"
            /\ fired' = fired \cup {"eval"}
            /\ ret' = "eval_end"
            /\ pc' = "test"
       ELSE /\ pc' = "iter_end"
            /\ UNCHANGED <<net_mode, fired, ret>>
    /\ UNCHANGED <<env, ckpt_file, runs, trainer, opt_steps,
                   sched_steps, load_calls, not_found, start_epoch, start_iter,
                   epoch, iteration, niter, global_step, drawn, loc, frame,
                   per_batch, test_calls, logged, steps, fwd>>

\* EvalEnd without the switch back to training mode
EvalEndNoTrain ==
    /\ pc = "eval_end"
    /\ pc' = "iter_end"
    /\ UNCHANGED <<env, ckpt_file, runs, ret, trainer, net_mode, opt_steps,
                   sched_steps, load_calls, not_found, start_epoch, start_iter,
                   epoch, iteration, niter, global_step, drawn, loc, frame, hist>>

\* trainer.net.train() after test() returned
EvalEnd ==
    /\ pc = "eval_end"
    /\ net_mode' = "train"
    /\ pc' = "iter_end"
    /\ UNCHANGED <<env, ckpt_file, runs, ret, trainer, opt_steps,
                   sched_steps, load_calls, not_found, start_epoch, start_iter,
                   epoch, iteration, niter, global_step, drawn, loc, frame, hist>>

\* IterEnd with the scheduler step inside the inner loop
IterEndSched ==
    /\ pc = "iter_end"
    /\ iteration' = iteration + 1
    /\ sched_steps' = sched_steps + 1
    /\ pc' = "step"
    /\ UNCHANGED <<env, ckpt_file, runs, ret, trainer, net_mode, opt_steps,
                   load_calls, not_found, start_epoch, start_iter,
                   epoch, niter, global_step, drawn, loc, frame, hist>>

\* # end, and the inner loop's increment
IterEnd ==
    /\ pc = "iter_end"
    /\ iteration' = iteration + 1
    /\ pc' = "step"
    /\ UNCHANGED <<env, ckpt_file, runs, ret, trainer, net_mode, opt_steps,
                   sched_steps, load_calls, not_found, start_epoch, start_iter,
                   epoch, niter, global_step, drawn, loc, frame, hist>>

\* the inner range is exhausted: scheduler step, start_iter = 0, next epoch
EpochEnd ==
    /\ pc = "step"
    /\ iteration >= niter
    /\ sched_steps' = sched_steps + 1
    /\ start_iter' = NextStartIter
    /\ epoch' = epoch + 1
    /\ pc' = "epoch"
    /\ UNCHANGED <<env, ckpt_file, runs, ret, trainer, net_mode, opt_steps,
                   load_calls, not_found, start_epoch, iteration, niter,
                   global_step, drawn, loc, frame, hist>>

\* ------------------------------------------------------------------- test()
\* net.eval(), the held-out loader, test_loss = 0, correct = 0
TestSetup ==
    /\ pc = "test"
    /\ net_mode' = "eval"
    /\ tidx' = 0
    /\ test_loss' = Zero
    /\ test_correct' = Zero
    /\ per_batch' = <<>>
    /\ test_calls' = test_calls + 1
    /\ pc' = "test_loop"
    /\ UNCHANGED <<env, ckpt_file, runs, ret, trainer, opt_steps, sched_steps,
                   load_calls, not_found, start_epoch, start_iter, epoch,
                   iteration, niter, global_step, drawn, loc, test_raw,
                   test_target, pred, logged, fired, steps, fwd>>

\* TestBatch with the optimizer step of the training loop
TestBatchStep ==
    /\ pc = "test_loop"
    /\ tidx < LenLoader(test_size, cfg.batch_size, FALSE)
    /\ LET n == BatchLen(test_size, cfg.batch_size, tidx)
       IN  \E out \in Tensors(n, net_range), tgt \in Tensors(n, tgt_range) :
               /\ test_raw' = out
               /\ test_target' = tgt
               /\ test_loss' = FAdd[test_loss, MseLoss(out, tgt)]
               /\ pred' = Binarize(out)
               /\ test_correct' = FAdd[test_correct, EqMean(Binarize(out), tgt)]
               /\ per_batch' = Append(per_batch,
                                      <<MseLoss(out, tgt), EqMean(Binarize(out), tgt)>>)
    /\ fwd' = fwd \cup {<<"test", net_mode>>}
    /\ tidx' = tidx + 1
    /\ opt_steps' = opt_steps + 1
    /\ UNCHANGED <<env, ckpt_file, runs, pc, ret, trainer, net_mode, sched_steps,
                   load_calls, not_found, start_epoch, start_iter, epoch,
                   iteration, niter, global_step, drawn, loc, test_calls,
                   logged, fired, steps>>

\* one held-out batch: forward pass, loss, the two fills, accuracy
TestBatch ==
    /\ pc = "test_loop"
    /\ tidx < LenLoader(test_size, cfg.batch_size, FALSE)
    /\ LET n == BatchLen(test_size, cfg.batch_size, tidx)
       IN  \E out \in Tensors(n, net_range), tgt \in Tensors(n, tgt_range) :
               /\ test_raw' = out
               /\ test_target' = tgt
               /\ test_loss' = FAdd[test_loss, MseLoss(out, tgt)]
               /\ pred' = Binarize(out)
               /\ test_correct' = FAdd[test_correct, EqMean(Binarize(out), tgt)]
               /\ per_batch' = Append(per_batch,
                                      <<MseLoss(out, tgt), EqMean(Binarize(out), tgt)>>)
    /\ fwd' = fwd \cup {<<"test", net_mode>>}
    /\ tidx' = tidx + 1
    /\ UNCHANGED <<env, ckpt_file, runs, ctl, loc, test_calls, logged, fired, steps>>

\* test_loss /= len(test_loader.dataset), 100. * correct / len(...)
LoggedLoss(sum, size) == Fmt[FDivInt[sum, size], 4]

LoggedAccuracy(sum, size) == Fmt[FDivInt[FMul[Int2F(100), sum], size], 2]

\* the loader is exhausted: the averages are logged and test() returns
TestLog ==
    /\ pc = "test_loop"
    /\ tidx >= LenLoader(test_size, cfg.batch_size, FALSE)
    /\ IF test_size = 0
       THEN \* 0 / 0 raises ZeroDivisionError
            /\ pc' = "crashed"
            /\ UNCHANGED <<frame, logged>>
       ELSE /\ logged' = <<LoggedLoss(test_loss, test_size),
                           LoggedAccuracy(test_correct, test_size)>>
            /\ pc' = ret
            /\ tidx' = 0
            /\ test_raw' = Unbound /\ test_target' = Unbound /\ pred' = Unbound
            /\ test_loss' = Unbound /\ test_correct' = Unbound
    /\ UNCHANGED <<env, ckpt_file, runs, ret, trainer, net_mode, opt_steps,
                   sched_steps, load_calls, not_found, start_epoch, start_iter,
                   epoch, iteration, niter, global_step, drawn, loc,
                   per_batch, test_calls, fired, steps, fwd>>

\* ---------------------------------------------------------------- the process
\* the process ends or is killed, and train_net.py is launched again: only
\* the configuration, the datasets and the checkpoint file survive
Restart ==
    /\ pc # "setup"
    /\ runs < MaxRuns
    /\ runs' = runs + 1
    /\ pc' = "setup"
    /\ ret' = "none"
    /\ trainer' = TrainerInit
    /\ net_mode' = "train"
    /\ opt_steps' = 0 /\ sched_steps' = 0 /\ load_calls' = 0 /\ not_found' = FALSE
    /\ start_epoch' = 0 /\ start_iter' = 0 /\ epoch' = 0 /\ iteration' = 0
    /\ niter' = 0 /\ global_step' = 0 /\ drawn' = 0
    /\ raw' = Unbound /\ target' = Unbound /\ output' = Unbound
    /\ loss' = Unbound /\ correct' = Unbound
    /\ tidx' = 0 /\ test_raw' = Unbound /\ test_target' = Unbound /\ pred' = Unbound
    /\ test_loss' = Unbound /\ test_correct' = Unbound
    /\ per_batch' = <<>> /\ test_calls' = 0 /\ logged' = Unbound
    /\ fired' = {} /\ steps' = <<>> /\ fwd' = {}
    /\ UNCHANGED <<env, ckpt_file>>

\* the steps of one run
Run ==
    \/ Setup \/ EpochBegin \/ Finish \/ TrainStep \/ Plot \/ Show \/ Save
    \/ Eval \/ TestSetup \/ TestBatch \/ TestLog \/ EvalEnd \/ IterEnd
    \/ EpochEnd

Next == Run \/ Restart

Spec == Init /\ [][Next]_vars

\* files holding any cursor
AnyFiles ==
    {[exists |-> TRUE, epoch |-> e, iteration |-> i, run |-> -1] :
        e \in 0..MaxEpoch, i \in 0..MaxTrain}

\* one run of train() from every resumed cursor
InitResume ==
    /\ cfg \in Configs
    /\ train_size \in {0, MaxTrain}
    /\ test_size = MaxTest
    /\ net_range = {Rat[3, 5]}
    /\ tgt_range = {One}
    /\ ckpt_file \in {NoFile} \cup AnyFiles
    /\ runs = 0
    /\ Fresh

\* a run that is not interrupted: the main thread keeps executing
FairSpec == InitResume /\ [][Run]_vars /\ WF_vars(Run)

\* ------------------------------------------------- the functions on tensors
\* one training iteration of a fresh run, or one call test(net, logger), on
\* every batch the network and the dataset can produce
InitTensor ==
    /\ cfg \in {c \in Configs : /\ c.num_epoch = 1 /\ c.overfit = FALSE
                                /\ c.freq_plot = 1 /\ c.freq_show = 1
                                /\ c.freq_save = 1 /\ c.freq_eval = 1}
    /\ train_size = MaxTrain
    /\ test_size \in 0..MaxTest
    /\ net_range = Values
    /\ tgt_range = Targets
    /\ ckpt_file = NoFile
    /\ runs = 0
    /\ trainer = TrainerInit
    /\ opt_steps = 0 /\ sched_steps = 0 /\ load_calls = 0
    /\ start_epoch = 0 /\ start_iter = 0 /\ epoch = 0 /\ iteration = 0
    /\ global_step = 0 /\ drawn = 0
    /\ raw = Unbound /\ target = Unbound /\ output = Unbound
    /\ loss = Unbound /\ correct = Unbound
    /\ tidx = 0 /\ test_raw = Unbound /\ test_target = Unbound /\ pred = Unbound
    /\ test_loss = Unbound /\ test_correct = Unbound
    /\ per_batch = <<>> /\ test_calls = 0 /\ logged = Unbound
    /\ fired = {} /\ steps = <<>> /\ fwd = {}
    /\ \/ /\ pc = "step" /\ ret = "none" /\ not_found = TRUE
          /\ niter = LenLoader(train_size, cfg.batch_size, TRUE)
          /\ net_mode = "train"
       \/ /\ pc = "test" /\ ret = "returned" /\ not_found = FALSE
          /\ niter = 0
          /\ net_mode \in {"train", "eval"}

NextTensor == TrainStep \/ TestSetup \/ TestBatch \/ TestLog

SpecTensor == InitTensor /\ [][NextTensor]_vars

\* ------------------------------------------------------------------- claims
\* positions inside one iteration of the inner loop, after its optimizer step
IterPcs == {"plot", "show", "save", "eval", "test", "test_loop", "eval_end", "iter_end"}

\* len(train_data_loader)
Niter == train_size \div cfg.batch_size

\* i is a positive multiple of f
Due(i, f) == i > 0 /\ i % f = 0

\* the side effects the cadence asks for at in-epoch index i
ExpectedFired(i) ==
    (IF Due(i, cfg.freq_plot) THEN {"plot"} ELSE {})
    \cup (IF Due(i, cfg.freq_show) THEN {"show"} ELSE {})
    \cup (IF Due(i, cfg.freq_save) /\ ~cfg.overfit THEN {"save"} ELSE {})
    \cup (IF Due(i, cfg.freq_eval) /\ ~cfg.overfit THEN {"eval"} ELSE {})

\* the side effects whose section of the iteration lies before position p
Passed(p) ==
    CASE p = "plot" -> {}
      [] p = "show" -> {"plot"}
      [] p = "save" -> {"plot", "show"}
      [] p = "eval" -> {"plot", "show", "save"}
      [] OTHER -> {"plot", "show", "save", "eval"}

\* C1: in every executed iteration i, logging fires iff i > 0 and i mod
\* freq_plot = 0, rendering iff i > 0 and i mod freq_show = 0, saving iff
\* i > 0, i mod freq_save = 0 and not overfit, evaluation iff i > 0,
\* i mod freq_eval = 0 and not overfit: once a section of the iteration is
\* passed its effect has fired exactly when it is due, a fired save has
\* written this cursor, and test() was called once per due evaluation.
C1_Cadence ==
    pc \in IterPcs =>
        /\ fired = ExpectedFired(iteration) \cap Passed(pc)
        /\ (iteration = 0 => fired = {})
        /\ (cfg.overfit => fired \cap {"save", "eval"} = {} /\ test_calls = 0)
        /\ ("save" \in fired =>
                /\ ckpt_file.exists /\ ckpt_file.run = runs
                /\ ckpt_file.epoch = epoch /\ ckpt_file.iteration = iteration)
        /\ (pc \in {"eval_end", "iter_end"} =>
                test_calls = Cardinality({k \in 1..Len(steps) :
                    Due(steps[k][2], cfg.freq_eval) /\ ~cfg.overfit}))

C1_Witness ==
    /\ pc = "iter_end" /\ iteration = 1
    /\ fired = {"save", "eval"}
    /\ cfg.freq_plot = 2

\* C2: a new run that loads the checkpoint update_ckpt recorded at (e, i),
\* e < num_epoch and 0 < i < niter, executes its first training step at
\* epoch e, iteration i, global_step e * niter + i.
C2_ResumeCursor ==
    ( /\ pc = "plot" /\ Len(steps) = 1 /\ load_calls = 1
      /\ ckpt_file.epoch < cfg.num_epoch
      /\ 0 < ckpt_file.iteration /\ ckpt_file.iteration < niter )
    =>  /\ start_epoch = ckpt_file.epoch
        /\ start_iter = ckpt_file.iteration
        /\ epoch = ckpt_file.epoch
        /\ iteration = ckpt_file.iteration
        /\ global_step = ckpt_file.epoch * niter + ckpt_file.iteration
        /\ steps[1] = <<ckpt_file.epoch, ckpt_file.iteration,
                        ckpt_file.epoch * Niter + ckpt_file.iteration>>

C2_Witness ==
    /\ pc = "plot" /\ Len(steps) = 1 /\ load_calls = 1
    /\ runs = 1 /\ ckpt_file.run = 0
    /\ ckpt_file.epoch = 1 /\ ckpt_file.iteration = 2
    /\ epoch = 1 /\ iteration = 2

\* the training steps of a run resumed at (e, i): epochs e..ne-1 in order,
\* the first from i, the later ones from 0, each up to n-1
RECURSIVE StepsFrom(_, _, _, _)
StepsFrom(e, i, ne, n) ==
    IF e >= ne THEN <<>>
    ELSE IF i >= n THEN StepsFrom(e + 1, 0, ne, n)
    ELSE <<<<e, i, e * n + i>>>> \o StepsFrom(e, i + 1, ne, n)

IsPrefix(s, t) == Len(s) <= Len(t) /\ s = SubSeq(t, 1, Len(s))

\* C3: from a resumed cursor (start_epoch, start_iter) train() terminates,
\* and its training steps are those of epochs start_epoch..num_epoch-1 in
\* order, the first from start_iter and every later one from 0, up to
\* niter-1, with one optimizer step each; none when start_epoch >= num_epoch;
\* no loader is asked for more than niter batches.
C3_EpochsRun ==
    /\ <>(pc = "done")
    /\ [](pc # "setup" =>
            /\ IsPrefix(steps, StepsFrom(trainer.epoch, trainer.iteration,
                                         cfg.num_epoch, Niter))
            /\ opt_steps = Len(steps)
            /\ drawn <= niter
            /\ pc # "crashed")
    /\ [](pc = "done" =>
            /\ steps = StepsFrom(trainer.epoch, trainer.iteration,
                                 cfg.num_epoch, Niter)
            /\ (trainer.epoch >= cfg.num_epoch => steps = <<>>))

C3_Witness ==
    /\ pc = "done"
    /\ trainer.epoch = 0 /\ trainer.iteration = 1
    /\ cfg.num_epoch = 2 /\ Niter = MaxTrain
    /\ Len(steps) = 2 * MaxTrain - 1

\* C4: the scheduler is stepped once at the end of each executed epoch and
\* never inside one: at every position the number of scheduler steps is the
\* number of epochs completed, and max(0, num_epoch - start_epoch) at the end.
C4_SchedulerPerEpoch ==
    /\ (pc = "setup" => sched_steps = 0)
    /\ (pc \in IterPcs \cup {"step", "epoch", "done"} =>
            sched_steps = epoch - start_epoch)
    /\ (pc \in IterPcs \cup {"step"} => epoch < cfg.num_epoch)
    /\ (pc = "done" => sched_steps = Max(0, cfg.num_epoch - start_epoch))

C4_Witness ==
    /\ pc = "done" /\ start_epoch = 0 /\ start_iter = 0
    /\ cfg.num_epoch = 2 /\ sched_steps = 2 /\ Len(steps) >= 2

\* what a call of test() must leave alone
Untouched ==
    <<opt_steps, sched_steps, ckpt_file, trainer, load_calls, start_epoch,
      start_iter, epoch, iteration, niter, global_step, drawn, steps, fired>>

\* C5: a call of test() performs no optimizer step, scheduler step or
\* checkpoint write and leaves the parameters, the optimizer and the
\* training cursor unchanged; its accumulators start from zero at every call.
C5_TestIsPure ==
    /\ [][(pc \in {"test", "test_loop"} /\ runs' = runs) => UNCHANGED Untouched]_vars
    /\ [][(pc = "test" /\ runs' = runs) =>
            test_loss' = Zero /\ test_correct' = Zero /\ tidx' = 0]_vars
    /\ [](pc = "test_loop" /\ tidx = 0 => test_loss = Zero /\ test_correct = Zero)

C5_Witness ==
    /\ pc = "eval_end" /\ test_calls = 2
    /\ opt_steps = Len(steps) /\ Len(steps) >= 2
    /\ logged # Unbound

\* the per-batch losses and accuracies of the last call of test()
BatchLosses == [k \in 1..Len(per_batch) |-> per_batch[k][1]]

BatchAccuracies == [k \in 1..Len(per_batch) |-> per_batch[k][2]]

\* C6: the logged loss is the average of the per-batch MSE values over the
\* batches iterated and the logged accuracy is 100 times the average of the
\* per-batch accuracies, for every batch size and held-out dataset size
\* (stated here for the calls in which no loss is NaN).
C6_LoggedAverages ==
    ( /\ pc = "returned" /\ logged # Unbound
      /\ \A k \in 1..Len(per_batch) : ~IsNaN(per_batch[k][1]) ) =>
        /\ logged[1] = Fmt[Mean[BatchLosses], 4]
        /\ logged[2] = Fmt[FMul[Int2F(100), Mean[BatchAccuracies]], 2]

\* C7: with no file at cfg.ckpt_path, Setup calls no load_ckpt, logs 'not
\* found' and starts at (0, 0), and the run then executes every iteration of
\* all num_epoch epochs; with a file, load_ckpt is called exactly once, in
\* Setup, so before the first training step.
C7_MissingCkpt ==
    /\ [][(pc = "setup" /\ pc' # "setup") =>
            IF ckpt_file.exists
            THEN load_calls' = 1 /\ ~not_found'
            ELSE /\ load_calls' = 0 /\ not_found'
                 /\ start_epoch' = 0 /\ start_iter' = 0]_vars
    /\ [][(load_calls' # load_calls) => (pc = "setup" \/ pc' = "setup")]_vars
    /\ [](pc = "setup" => steps = <<>> /\ load_calls = 0)
    /\ []((pc = "done" /\ not_found) =>
            /\ load_calls = 0
            /\ steps = StepsFrom(0, 0, cfg.num_epoch, Niter)
            /\ Len(steps) = cfg.num_epoch * Niter)

C7_Witness ==
    /\ pc = "done" /\ not_found /\ load_calls = 0
    /\ cfg.num_epoch = 2 /\ Len(steps) = 2 * MaxTrain

\* the claim about one filled tensor f of the raw tensor r
FilledOriginal(r, f) ==
    \A i \in DOMAIN r :
        /\ (FLt(r[i], Half) => f[i] = Zero)
        /\ (FGe(r[i], Half) => f[i] = One)
        /\ f[i] \in {Zero, One}

\* C8 as stated: the two fills map v < 0.5 to 0 and v >= 0.5 to 1, so every
\* binarized element is 0 or 1, in train() and in test(); the training loss
\* is computed from the un-binarized output.
C8_Original ==
    /\ (output # Unbound => FilledOriginal(raw, output) /\ loss = MseLoss(raw, target))
    /\ (pred # Unbound => FilledOriginal(test_raw, pred))

FilledAmended(r, f) ==
    \A i \in DOMAIN r :
        /\ (FLt(r[i], Half) => f[i] = Zero)
        /\ (FGe(r[i], Half) => f[i] = One)
        /\ (~IsNaN(r[i]) => f[i] \in {Zero, One})
        /\ (IsNaN(r[i]) => IsNaN(f[i]))

\* C8 amended: the two fills map v < 0.5 to 0 and v >= 0.5 to 1, so every
\* binarized element of a prediction that is not NaN is 0 or 1, and a NaN
\* prediction stays NaN; the second fill changes no element the first one set;
\* the training loss is computed from the un-binarized output.
C8_Binarize ==
    /\ (output # Unbound =>
            /\ DOMAIN output = DOMAIN raw
            /\ FilledAmended(raw, output)
            /\ loss = MseLoss(raw, target))
    /\ (pred # Unbound =>
            /\ DOMAIN pred = DOMAIN test_raw
            /\ FilledAmended(test_raw, pred))

C8_Witness ==
    /\ output # Unbound
    /\ \E i \in DOMAIN raw : raw[i] = Half /\ output[i] = One
    /\ \E i \in DOMAIN raw : raw[i] = Rat[2, 5] /\ output[i] = Zero
    /\ loss # MseLoss(output, target)

\* C9: every training forward pass runs in training mode, every forward pass
\* of test() in evaluation mode, and the network is back in training mode
\* wherever the training loop continues after an evaluation.
C9_ModeDiscipline ==
    /\ fwd \subseteq {<<"train", "train">>, <<"test", "eval">>}
    /\ (pc \in {"step", "plot", "show", "save", "eval", "iter_end"} => net_mode = "train")
    /\ (pc \in {"test_loop", "eval_end"} => net_mode = "eval")

C9_Witness ==
    /\ pc = "plot" /\ iteration = 0 /\ epoch = 1 /\ start_epoch = 0
    /\ cfg.freq_eval = 1 /\ ~cfg.overfit /\ Niter = MaxTrain
    /\ test_calls = MaxTrain - 1
    /\ fwd = {<<"train", "train">>, <<"test", "eval">>}

\* C10: within one run global_step advances by exactly 1 from each training
\* step to the next, across epoch boundaries and after a resume mid-epoch,
\* so no two training steps share a global_step.
C10_GlobalStep ==
    /\ \A k \in 1..(Len(steps) - 1) : steps[k + 1][3] = steps[k][3] + 1
    /\ \A j, k \in 1..Len(steps) : j # k => steps[j][3] # steps[k][3]
    /\ (pc \in IterPcs => global_step = steps[Len(steps)][3])

C10_Witness ==
    /\ trainer.iteration = 2 /\ trainer.epoch = 0
    /\ Len(steps) >= 2
    /\ steps[1] = <<0, 2, 2>>
    /\ steps[Len(steps)][1] = 1

====
